---------------------------- MODULE Spec2Model ----------------------------
(***************************************************************************)
(* mkdocs-redirects (src/mkdocs_redirects/plugin.py).                      *)
(*                                                                         *)
(* Strings are sequences of one-character strings, so that the posixpath   *)
(* functions the plugin calls (split, splitext, join, dirname, normpath,   *)
(* abspath, relpath) and str.lower / str.startswith / str.replace are      *)
(* computed character by character, as the library computes them.          *)
(***************************************************************************)
EXTENDS Naturals, Sequences, FiniteSets, TLC

VARIABLES
    phase,      \* where the host's build is: idle, collected, built, done
    builds,     \* builds started: 0, 1, or 2 for two or more
    config,     \* the host's configuration of the running build
    files,      \* the host's documentation pages (their src_path)
    redirects,  \* self.redirects
    doc_pages,  \* self.doc_pages
    fs,         \* the file system: [dirs, files]
    log,        \* the warnings logged during the running build
    trace,      \* on_post_build's loop: [fs, log] before and after each entry
    call        \* the last direct call of a module-level function

vars == <<phase, builds, config, files, redirects, doc_pages, fs, log, trace, call>>

----------------------------------------------------------------------------
(* Characters and strings                                                  *)

sep == "/"
extsep == "."
curdir == <<".">>
pardir == <<".", ".">>

UpperCase == <<"A","B","C","D","E","F","G","H","I","J","K","L","M",
               "N","O","P","Q","R","S","T","U","V","W","X","Y","Z">>
LowerCase == <<"a","b","c","d","e","f","g","h","i","j","k","l","m",
               "n","o","p","q","r","s","t","u","v","w","x","y","z">>

\* str.lower(), one character
LowerChar(c) ==
    IF \E i \in 1..Len(UpperCase) : UpperCase[i] = c
    THEN LowerCase[CHOOSE i \in 1..Len(UpperCase) : UpperCase[i] = c]
    ELSE c

\* str.lower()
lower(s) == [i \in 1..Len(s) |-> LowerChar(s[i])]

\* str.startswith(prefix)
startswith(s, prefix) ==
    /\ Len(prefix) <= Len(s)
    /\ SubSeq(s, 1, Len(prefix)) = prefix

\* str.endswith(suffix)
endswith(s, suffix) ==
    /\ Len(suffix) <= Len(s)
    /\ SubSeq(s, Len(s) - Len(suffix) + 1, Len(s)) = suffix

\* str.rfind(c) + 1: the 1-based position of the last c in s, 0 when there is none
rfind(s, c) ==
    LET hits == {i \in 1..Len(s) : s[i] = c}
    IN  IF hits = {} THEN 0 ELSE CHOOSE i \in hits : \A j \in hits : j <= i

\* s == sep * len(s)
AllSep(s) == \A i \in 1..Len(s) : s[i] = sep

\* str.rstrip(sep)
RECURSIVE rstrip(_)
rstrip(s) ==
    IF s # <<>> /\ s[Len(s)] = sep THEN rstrip(SubSeq(s, 1, Len(s) - 1)) ELSE s

\* str.replace(a, b) for one-character a and b
replace(s, a, b) == [i \in 1..Len(s) |-> IF s[i] = a THEN b ELSE s[i]]

\* str.split(sep): the pieces between separators, empty pieces kept
RECURSIVE strsplit(_)
strsplit(s) ==
    LET hits == {i \in 1..Len(s) : s[i] = sep}
    IN  IF hits = {} THEN <<s>>
        ELSE LET i == CHOOSE k \in hits : \A j \in hits : k <= j
             IN  <<SubSeq(s, 1, i - 1)>> \o strsplit(SubSeq(s, i + 1, Len(s)))

\* sep.join(comps)
RECURSIVE sepjoin(_)
sepjoin(comps) ==
    IF comps = <<>> THEN <<>>
    ELSE IF Len(comps) = 1 THEN comps[1]
    ELSE comps[1] \o <<sep>> \o sepjoin(Tail(comps))

----------------------------------------------------------------------------
(* posixpath                                                               *)

\* posixpath.split(p): <<head, tail>>
pathsplit(p) ==
    LET i    == rfind(p, sep)
        head == SubSeq(p, 1, i)
        tail == SubSeq(p, i + 1, Len(p))
    IN  <<IF head # <<>> /\ ~AllSep(head) THEN rstrip(head) ELSE head, tail>>

\* posixpath.dirname(p)
dirname(p) == pathsplit(p)[1]

\* posixpath.splitext(p): <<root, ext>>; leading dots of the filename are no extension
splitext(p) ==
    LET sepIndex == rfind(p, sep)
        dotIndex == rfind(p, extsep)
    IN  IF /\ dotIndex > sepIndex
           /\ \E k \in (sepIndex + 1)..(dotIndex - 1) : p[k] # extsep
        THEN <<SubSeq(p, 1, dotIndex - 1), SubSeq(p, dotIndex, Len(p))>>
        ELSE <<p, <<>> >>

\* posixpath.join(a, b)
join2(a, b) ==
    IF startswith(b, <<sep>>) THEN b
    ELSE IF a = <<>> \/ endswith(a, <<sep>>) THEN a \o b
    ELSE a \o <<sep>> \o b

\* posixpath.join(a, *p)
RECURSIVE joinall(_, _)
joinall(a, p) ==
    IF p = <<>> THEN a ELSE joinall(join2(a, p[1]), Tail(p))

\* the loop of posixpath.normpath over the components
RECURSIVE normcomps(_, _, _)
normcomps(comps, new_comps, initial_slashes) ==
    IF comps = <<>> THEN new_comps
    ELSE IF comps[1] = <<>> \/ comps[1] = curdir
    THEN normcomps(Tail(comps), new_comps, initial_slashes)
    ELSE IF \/ comps[1] # pardir
            \/ (initial_slashes = 0 /\ new_comps = <<>>)
            \/ (new_comps # <<>> /\ new_comps[Len(new_comps)] = pardir)
    THEN normcomps(Tail(comps), Append(new_comps, comps[1]), initial_slashes)
    ELSE normcomps(Tail(comps),
                   IF new_comps # <<>> THEN SubSeq(new_comps, 1, Len(new_comps) - 1)
                   ELSE new_comps,
                   initial_slashes)

\* posixpath.normpath: the number of leading slashes it keeps (0, 1 or 2)
initial_slashes_of(path) ==
    IF ~startswith(path, <<sep>>) THEN 0
    ELSE IF startswith(path, <<sep, sep>>) /\ ~startswith(path, <<sep, sep, sep>>) THEN 2
    ELSE 1

\* path or dot
or_dot(path) == IF path = <<>> THEN curdir ELSE path

\* posixpath.normpath(path)
normpath(path) ==
    IF path = <<>> THEN curdir
    ELSE or_dot([i \in 1..initial_slashes_of(path) |-> sep]
                \o sepjoin(normcomps(strsplit(path), <<>>, initial_slashes_of(path))))

\* posixpath.abspath(path), with os.getcwd() = cwd
abspath(path, cwd) ==
    normpath(IF startswith(path, <<sep>>) THEN path ELSE join2(cwd, path))

\* [x for x in comps if x]
nonempty(comps) == SelectSeq(comps, LAMBDA x : x # <<>>)

\* len(commonprefix([a, b])) for two lists of components
commonlen(a, b) ==
    LET same == {i \in 0..Len(a) : i <= Len(b) /\ \A j \in 1..i : a[j] = b[j]}
    IN  CHOOSE i \in same : \A j \in same : j <= i

\* posixpath.relpath: its result from rel_list
relpath_join(rel_list) ==
    IF rel_list = <<>> THEN curdir ELSE joinall(rel_list[1], Tail(rel_list))

\* posixpath.relpath: its result from start_list and path_list
relpath_lists(start_list, path_list) ==
    relpath_join([k \in 1..(Len(start_list) - commonlen(start_list, path_list)) |-> pardir]
                 \o SubSeq(path_list, commonlen(start_list, path_list) + 1, Len(path_list)))

\* posixpath.relpath(path, start), path non-empty
relpath(path, start, cwd) ==
    relpath_lists(nonempty(strsplit(abspath(start, cwd))),
                  nonempty(strsplit(abspath(path, cwd))))

----------------------------------------------------------------------------
(* plugin.py: the path mapper and the relative path resolver              *)

S_index == <<"i","n","d","e","x">>
S_readme == <<"r","e","a","d","m","e">>
S_html == <<".","h","t","m","l">>
S_index_html == S_index \o S_html

\* a plausible slip: the comparison with 'index' / 'readme' made case-sensitive
logical_name_CaseSensitive(name_orig) ==
    IF name_orig \in {S_index, S_readme} THEN S_index ELSE name_orig

\* get_html_path: name, from name_orig
logical_name(name_orig) ==
    IF lower(name_orig) \in {S_index, S_readme} THEN S_index ELSE name_orig

\* get_html_path: its result, from parent and name
html_path(parent, name, use_directory_urls) ==
    IF ~use_directory_urls THEN join2(parent, name \o S_html)
    ELSE IF name = S_index THEN join2(parent, S_index_html)
    ELSE joinall(parent, <<name, S_index_html>>)

get_html_path(path, use_directory_urls) ==
    html_path(pathsplit(path)[1],
              logical_name(splitext(pathsplit(path)[2])[1]),
              use_directory_urls)

\* a plausible slip: the relative path taken from the old page, not from its directory
relative_html_path_FromPage(old_path, new_path, use_directory_urls, cwd) ==
    relpath(IF ~use_directory_urls THEN new_path
            ELSE IF dirname(new_path) # <<>> THEN dirname(new_path)
            ELSE <<".", sep>>,
            old_path, cwd)
    \o (IF use_directory_urls THEN <<sep>> ELSE <<>>)

\* get_relative_html_path: its result, from old_path and new_path
relative_html_path(old_path, new_path, use_directory_urls, cwd) ==
    relpath(IF ~use_directory_urls THEN new_path
            ELSE IF dirname(new_path) # <<>> THEN dirname(new_path)
            ELSE <<".", sep>>,
            dirname(old_path), cwd)
    \o (IF use_directory_urls THEN <<sep>> ELSE <<>>)

get_relative_html_path(old_page, new_page, use_directory_urls, cwd) ==
    relative_html_path(get_html_path(old_page, use_directory_urls),
                       get_html_path(new_page, use_directory_urls),
                       use_directory_urls, cwd)

----------------------------------------------------------------------------
(* plugin.py: the redirect writer, on a file system [dirs, files]          *)

\* textwrap.dedent(...).format(url=new_path): the fixed template, by its three
\* occurrences of {url}
Template(url) ==
    [kind |-> "redirect", canonical |-> url, script |-> url, refresh |-> url]

\* os.path.exists(p)
exists(fsys, p) == p \in fsys.dirs \/ p \in DOMAIN fsys.files

\* the directories os.makedirs(p) creates: p and its missing ancestors
RECURSIVE makedirs(_, _)
makedirs(fsys, p) ==
    IF p = <<>> \/ AllSep(p) \/ exists(fsys, p) THEN {}
    ELSE {p} \cup makedirs(fsys, dirname(p))

\* p and every ancestor of p
RECURSIVE ancestors(_)
ancestors(p) ==
    IF p = <<>> \/ AllSep(p) THEN {} ELSE {p} \cup ancestors(dirname(p))

\* open(p, 'w') and f.write(content): the files after it
written(fsys, p, content) ==
    [q \in DOMAIN fsys.files \cup {p} |-> IF q = p THEN content ELSE fsys.files[q]]

\* a plausible slip: the meta refresh left pointing at the old page
write_html_at_BadRefresh(fsys, old_path_abs, new_path) ==
    [fs     |-> [dirs  |-> fsys.dirs \cup makedirs(fsys, dirname(old_path_abs)),
                 files |-> written(fsys, old_path_abs,
                                   [Template(new_path) EXCEPT !.refresh = old_path_abs])],
     raised |-> FALSE]

\* write_html, from old_path_abs on: the file system after it, and whether
\* makedirs or open raised (a file where a directory is needed, a directory
\* where the file goes)
write_html_at(fsys, old_path_abs, new_path) ==
    IF \/ \E a \in ancestors(dirname(old_path_abs)) : a \in DOMAIN fsys.files
       \/ old_path_abs \in fsys.dirs
       \/ pathsplit(old_path_abs)[2] = <<>>
    THEN [fs |-> fsys, raised |-> TRUE]
    ELSE [fs     |-> [dirs  |-> fsys.dirs \cup
                                (IF ~exists(fsys, dirname(old_path_abs))
                                 THEN makedirs(fsys, dirname(old_path_abs)) ELSE {}),
                      files |-> written(fsys, old_path_abs, Template(new_path))],
          raised |-> FALSE]

\* a plausible slip: the file written under its bare name, its directories dropped
write_html_Basename(fsys, site_dir, old_path, new_path) ==
    write_html_at(fsys, join2(site_dir, pathsplit(old_path)[2]), new_path)

write_html(fsys, site_dir, old_path, new_path) ==
    write_html_at(fsys, join2(site_dir, old_path), new_path)

----------------------------------------------------------------------------
(* plugin.py: RedirectPlugin                                               *)

S_md == <<".","m","d">>
S_http == <<"h","t","t","p",":","/","/">>
S_https == <<"h","t","t","p","s",":","/","/">>

\* mkdocs.utils.markdown_extensions
markdown_extensions ==
    { S_md, <<".","m","k","d">>, <<".","m","k","d","n">>, <<".","m","d","o","w","n">>,
      <<".","m","a","r","k","d","o","w","n">> }

\* mkdocs.utils.is_markdown_file(path), the host's predicate:
\* path.endswith(markdown_extensions)
is_markdown_file(path) == \E e \in markdown_extensions : endswith(path, e)

Warning(kind, arg) == [kind |-> kind, arg |-> arg]

\* a plausible slip: the 'not' of the validation left out
RECURSIVE key_warnings_Inverted(_)
key_warnings_Inverted(maps) ==
    IF maps = <<>> THEN <<>>
    ELSE (IF is_markdown_file(maps[1].old)
          THEN <<Warning("not_markdown", maps[1].old)>> ELSE <<>>)
         \o key_warnings_Inverted(Tail(maps))

\* on_files: the warnings of its loop over self.redirects.keys()
RECURSIVE key_warnings(_)
key_warnings(maps) ==
    IF maps = <<>> THEN <<>>
    ELSE (IF ~is_markdown_file(maps[1].old)
          THEN <<Warning("not_markdown", maps[1].old)>> ELSE <<>>)
         \o key_warnings(Tail(maps))

\* on_files: the warnings it logs
on_files_warnings(maps, legacy) ==
    (IF legacy THEN <<Warning("legacy", <<>>)>> ELSE <<>>) \o key_warnings(maps)

\* src_path.replace('\\', '/')
normalized(src_path) == replace(src_path, "\\", sep)

\* a plausible slip: the known pages of the build before kept
on_files_doc_pages_Accumulate(old_pages, fl) ==
    [k \in {normalized(f) : f \in fl} \cup DOMAIN old_pages |->
        IF k \in {normalized(f) : f \in fl}
        THEN CHOOSE f \in fl : normalized(f) = k
        ELSE old_pages[k]]

\* on_files: self.doc_pages, given what it held before and the host's pages
on_files_doc_pages(old_pages, fl) ==
    [k \in {normalized(f) : f \in fl} |-> CHOOSE f \in fl : normalized(f) = k]

\* page_new.lower().startswith(('http://', 'https://'))
is_external(page_new) ==
    startswith(lower(page_new), S_http) \/ startswith(lower(page_new), S_https)

\* the state of the loop after write_html
after_write(st, w) == [fs |-> w.fs, log |-> st.log, raised |-> w.raised]

\* a plausible slip: the arguments of get_relative_html_path swapped
on_post_build_entry_Swapped(st, page_old, page_new, pages, use_directory_urls, site_dir, cwd) ==
    IF is_external(page_new)
    THEN after_write(st, write_html(st.fs, site_dir,
                                    get_html_path(page_old, use_directory_urls), page_new))
    ELSE IF page_new \in pages
    THEN after_write(st, write_html(st.fs, site_dir,
                                    get_html_path(page_old, use_directory_urls),
                                    get_relative_html_path(page_new, page_old,
                                                           use_directory_urls, cwd)))
    ELSE [st EXCEPT !.log = Append(@, Warning("missing_target", page_new))]

\* a plausible slip: the scheme compared without lower()
on_post_build_entry_NoLower(st, page_old, page_new, pages, use_directory_urls, site_dir, cwd) ==
    IF startswith(page_new, S_http) \/ startswith(page_new, S_https)
    THEN after_write(st, write_html(st.fs, site_dir,
                                    get_html_path(page_old, use_directory_urls), page_new))
    ELSE IF page_new \in pages
    THEN after_write(st, write_html(st.fs, site_dir,
                                    get_html_path(page_old, use_directory_urls),
                                    get_relative_html_path(page_old, page_new,
                                                           use_directory_urls, cwd)))
    ELSE [st EXCEPT !.log = Append(@, Warning("missing_target", page_new))]

\* a plausible slip: the 'continue' after the warning left out
on_post_build_entry_NoContinue(st, page_old, page_new, pages, use_directory_urls, site_dir, cwd) ==
    IF is_external(page_new)
    THEN after_write(st, write_html(st.fs, site_dir,
                                    get_html_path(page_old, use_directory_urls), page_new))
    ELSE IF page_new \in pages
    THEN after_write(st, write_html(st.fs, site_dir,
                                    get_html_path(page_old, use_directory_urls),
                                    get_relative_html_path(page_old, page_new,
                                                           use_directory_urls, cwd)))
    ELSE after_write([st EXCEPT !.log = Append(@, Warning("missing_target", page_new))],
                     write_html(st.fs, site_dir,
                                get_html_path(page_old, use_directory_urls), page_new))

\* on_post_build: the body of its loop, for one entry of self.redirects
on_post_build_entry(st, page_old, page_new, pages, use_directory_urls, site_dir, cwd) ==
    IF is_external(page_new)
    THEN after_write(st, write_html(st.fs, site_dir,
                                    get_html_path(page_old, use_directory_urls), page_new))
    ELSE IF page_new \in pages
    THEN after_write(st, write_html(st.fs, site_dir,
                                    get_html_path(page_old, use_directory_urls),
                                    get_relative_html_path(page_old, page_new,
                                                           use_directory_urls, cwd)))
    ELSE [st EXCEPT !.log = Append(@, Warning("missing_target", page_new))]

\* a plausible slip: 'break' where the code says 'continue'
RECURSIVE on_post_build_loop_Break(_, _, _, _, _, _)
on_post_build_loop_Break(items, st, pages, use_directory_urls, site_dir, cwd) ==
    IF items = <<>> \/ st.raised \/ (st.log # <<>> /\ st.log[Len(st.log)].kind = "missing_target")
    THEN <<st>>
    ELSE <<st>> \o on_post_build_loop_Break(
                       Tail(items),
                       on_post_build_entry(st, items[1].old, items[1].new, pages,
                                           use_directory_urls, site_dir, cwd),
                       pages, use_directory_urls, site_dir, cwd)

\* on_post_build: its loop over self.redirects.items(); the states before and
\* after each entry, ending early when write_html raises
RECURSIVE on_post_build_loop(_, _, _, _, _, _)
on_post_build_loop(items, st, pages, use_directory_urls, site_dir, cwd) ==
    IF items = <<>> \/ st.raised THEN <<st>>
    ELSE <<st>> \o on_post_build_loop(
                       Tail(items),
                       on_post_build_entry(st, items[1].old, items[1].new, pages,
                                           use_directory_urls, site_dir, cwd),
                       pages, use_directory_urls, site_dir, cwd)

----------------------------------------------------------------------------
(* The host (mkdocs) and its inputs                                        *)

MaxEntries == 2

S_old_md == <<"o","l","d",".","m","d">>
S_old_txt == <<"o","l","d",".","t","x","t">>
S_d_README_md == <<"d","/","R","E","A","D","M","E",".","m","d">>
S_new_md == <<"n","e","w",".","m","d">>
S_d_x_md == <<"d","/","x",".","m","d">>
S_d_bs_x_md == <<"d","\\","x",".","m","d">>
S_external == <<"H","T","T","P","S",":","/","/","e">>
S_old_html == <<"o","l","d",".","h","t","m","l">>
S_new_html == <<"n","e","w",".","h","t","m","l">>

\* config['site_dir']
SiteDir == <<sep, "s">>

\* os.getcwd()
Cwds == {<<sep>>, <<sep, "w">>}

\* the keys and the targets of the redirect tables
OldPages == {S_old_md, S_old_txt, S_d_README_md}
NewPages == {S_new_md, S_d_x_md, S_external}
Entries == [old : OldPages, new : NewPages]

\* the redirect tables of at most n entries: a dict, so the keys are distinct
\* and the entries keep the order they were written in
RECURSIVE RedirectMaps(_)
RedirectMaps(n) ==
    IF n = 0 THEN {<<>>}
    ELSE RedirectMaps(n - 1) \cup
         {Append(te[1], te[2]) :
             te \in {x \in RedirectMaps(n - 1) \X Entries :
                        /\ Len(x[1]) = n - 1
                        /\ \A i \in 1..Len(x[1]) : x[1][i].old # x[2].old}}

\* the redirect tables a build may be configured with
Tables == RedirectMaps(MaxEntries)

\* the src_path of the host's documentation pages
FileLists == { {}, {S_new_md}, {S_new_md, S_d_bs_x_md, S_old_md} }

NoConfig == [redirect_maps |-> <<>>, redirects |-> FALSE,
             use_directory_urls |-> FALSE, site_dir |-> SiteDir]

\* the site directory as the host leaves it before a build: emptied
CleanSite == [dirs |-> {<<sep>>, SiteDir}, files |-> <<>>]

Page(src) == [kind |-> "page", canonical |-> src, script |-> <<>>, refresh |-> <<>>]

\* where the host writes the page of src_path
page_dest(src_path, use_directory_urls, site_dir) ==
    join2(site_dir, get_html_path(normalized(src_path), use_directory_urls))

\* the site after the host has written its pages
host_site(fsys, fl, use_directory_urls, site_dir) ==
    [dirs  |-> fsys.dirs \cup
               UNION {ancestors(dirname(page_dest(f, use_directory_urls, site_dir))) : f \in fl},
     files |-> [q \in DOMAIN fsys.files
                      \cup {page_dest(f, use_directory_urls, site_dir) : f \in fl} |->
                   IF \E f \in fl : page_dest(f, use_directory_urls, site_dir) = q
                   THEN Page(CHOOSE f \in fl : page_dest(f, use_directory_urls, site_dir) = q)
                   ELSE fsys.files[q]]]

NoCall == [fn |-> "none"]

Init ==
    /\ phase = "idle"
    /\ builds = 0
    /\ config = NoConfig
    /\ files = {}
    /\ redirects = <<>>
    /\ doc_pages = <<>>
    /\ fs = CleanSite
    /\ log = <<>>
    /\ trace = <<>>
    /\ call = NoCall

\* the host starts another build: the site directory is emptied
host_start ==
    /\ phase \in {"done", "failed"}
    /\ phase' = "idle"
    /\ config' = NoConfig
    /\ files' = {}
    /\ fs' = CleanSite
    /\ log' = <<>>
    /\ trace' = <<>>
    /\ UNCHANGED <<builds, redirects, doc_pages, call>>

\* RedirectPlugin.on_files(files, config)
on_files ==
    /\ phase = "idle"
    /\ \E maps \in Tables, fl \in FileLists, legacy \in BOOLEAN :
          /\ config' = [config EXCEPT !.redirect_maps = maps, !.redirects = legacy]
          /\ files' = fl
          /\ redirects' = maps
          /\ log' = log \o on_files_warnings(maps, legacy)
          /\ doc_pages' = on_files_doc_pages(doc_pages, fl)
    /\ builds' = IF builds = 0 THEN 1 ELSE 2
    /\ phase' = "collected"
    /\ UNCHANGED <<fs, trace, call>>

\* the host writes the pages of the site, as config['use_directory_urls'] says;
\* the setting is fixed for the build, and first read here
host_build ==
    /\ phase = "collected"
    /\ \E udu \in BOOLEAN :
          /\ config' = [config EXCEPT !.use_directory_urls = udu]
          /\ fs' = host_site(fs, files, udu, config.site_dir)
    /\ phase' = "built"
    /\ UNCHANGED <<builds, files, redirects, doc_pages, log, trace, call>>

\* on_post_build: what it leaves, given the states of its loop
on_post_build_leaves(tr) ==
    /\ trace' = tr
    /\ fs' = tr[Len(tr)].fs
    /\ log' = tr[Len(tr)].log
    /\ phase' = IF tr[Len(tr)].raised THEN "failed" ELSE "done"

\* RedirectPlugin.on_post_build(config)
on_post_build ==
    /\ phase = "built"
    /\ \E cwd \in Cwds :
          on_post_build_leaves(
              on_post_build_loop(redirects, [fs |-> fs, log |-> log, raised |-> FALSE],
                                 DOMAIN doc_pages, config.use_directory_urls,
                                 config.site_dir, cwd))
    /\ UNCHANGED <<builds, config, files, redirects, doc_pages, call>>

Next == host_start \/ on_files \/ host_build \/ on_post_build

Spec == Init /\ [][Next]_vars

----------------------------------------------------------------------------
(* Direct calls of the two pure functions, on source paths built from      *)
(* their parts: a list of directory names and a filename (stem, extension) *)

MaxDepth == 2

S_MD == <<".","M","D">>
S_txt == <<".","t","x","t">>
S_README == <<"R","E","A","D","M","E">>

DirNames == {<<"d">>, <<"e">>}

\* the lists of at most n directory names
RECURSIVE DirLists(_)
DirLists(n) ==
    IF n = 0 THEN {<<>>}
    ELSE DirLists(n - 1) \cup
         {Append(dd[1], dd[2]) : dd \in {x \in DirLists(n - 1) \X DirNames : Len(x[1]) = n - 1}}

\* filenames: the stem is what splitext keeps, the extension what it strips
FileNames ==
    { [stem |-> <<"a">>, ext |-> S_md],
      [stem |-> <<"b">>, ext |-> S_txt],
      [stem |-> S_index, ext |-> S_md],
      [stem |-> S_README, ext |-> S_md],
      [stem |-> <<"I","n","d","e","x">>, ext |-> S_MD],
      [stem |-> S_readme, ext |-> <<>>],
      [stem |-> S_index \o <<"e","s">>, ext |-> S_md],
      [stem |-> S_index \o <<".","x">>, ext |-> S_md],
      [stem |-> <<".">> \o S_index, ext |-> <<>>],
      [stem |-> <<"a",".","b">>, ext |-> S_md] }

\* the filenames used for pairs of pages
PairFileNames == { f \in FileNames : f.stem \in {<<"a">>, <<"b">>, S_index, S_README} }

SourcePaths == [dir : DirLists(MaxDepth), file : FileNames]
PairSourcePaths == [dir : DirLists(MaxDepth), file : PairFileNames]

\* the source path as the string the plugin receives
Render(p) == sepjoin(Append(p.dir, p.file.stem \o p.file.ext))

PathVars == <<phase, builds, config, files, redirects, doc_pages, fs, log, trace>>

call_get_html_path ==
    /\ call.fn = "none"
    /\ \E p \in SourcePaths, flag \in BOOLEAN :
          call' = [fn |-> "get_html_path", old |-> p, flag |-> flag,
                   ret |-> get_html_path(Render(p), flag)]
    /\ UNCHANGED PathVars

call_get_relative_html_path ==
    /\ call.fn = "none"
    /\ \E o \in PairSourcePaths, n \in PairSourcePaths, flag \in BOOLEAN, cwd \in Cwds :
          call' = [fn |-> "get_relative_html_path", old |-> o, new |-> n, flag |-> flag,
                   cwd |-> cwd,
                   ret |-> get_relative_html_path(Render(o), Render(n), flag, cwd)]
    /\ UNCHANGED PathVars

NextPaths == call_get_html_path \/ call_get_relative_html_path

SpecPaths == Init /\ [][NextPaths]_vars

----------------------------------------------------------------------------
(* Direct calls of write_html, one after another on the same site          *)

WritePaths == { S_old_html, <<"d">>, <<"d", sep>> \o S_index_html,
                <<"d", sep, "e", sep>> \o S_new_html }
WriteDests == { S_new_html, S_external }

WriteVars == <<phase, builds, config, files, redirects, doc_pages, log, trace>>

\* write_html, called: an exception leaves the file system as it was
write_html_called(old_path, new_path, w) ==
    /\ fs' = w.fs
    /\ call' = [fn |-> "write_html", old |-> old_path, new |-> new_path,
                raised |-> w.raised, pre |-> fs]

call_write_html ==
    /\ \E old_path \in WritePaths, new_path \in WriteDests :
          write_html_called(old_path, new_path, write_html(fs, SiteDir, old_path, new_path))
    /\ UNCHANGED WriteVars

NextWrite == call_write_html

SpecWrite == Init /\ [][NextWrite]_vars

----------------------------------------------------------------------------
(* Properties of the path mapper and the relative path resolver            *)

\* equal up to the case of the letters
EqualsIgnoreCase(a, b) ==
    /\ Len(a) = Len(b)
    /\ \A i \in 1..Len(a) : LowerChar(a[i]) = LowerChar(b[i])

\* the logical name of a filename: 'index' for index and readme, else the stem
RefName(f) ==
    IF EqualsIgnoreCase(f.stem, S_index) \/ EqualsIgnoreCase(f.stem, S_readme)
    THEN S_index ELSE f.stem

\* the reference mapping, built from the parts of the source path
RefHtmlPath(p, flag) ==
    sepjoin(p.dir \o (IF ~flag THEN <<RefName(p.file) \o S_html>>
                      ELSE IF RefName(p.file) = S_index THEN <<S_index_html>>
                      ELSE <<RefName(p.file), S_index_html>>))

\* C1: for every source path and both values of the directory-URL flag,
\* get_html_path returns the reference mapping: <parent>/<name>.html in flat
\* mode, <parent>/index.html or <parent>/<name>/index.html in directory mode,
\* where name is 'index' for index and readme files in any letter case.
C1_HtmlPathIsReference ==
    call.fn = "get_html_path" => call.ret = RefHtmlPath(call.old, call.flag)

C1_Witness ==
    /\ call.fn = "get_html_path"
    /\ call.flag
    /\ call.old = [dir |-> <<<<"d">>, <<"e">>>>, file |-> [stem |-> S_README, ext |-> S_md]]
    /\ call.ret = <<"d", sep, "e", sep>> \o S_index_html

\* a relative reference resolved, component by component, against a directory
\* given by its components; a reference that climbs above the root resolves
\* to no page
RECURSIVE Resolve(_, _)
Resolve(base, rel) ==
    IF rel = <<>> THEN base
    ELSE IF rel[1] = <<>> \/ rel[1] = curdir THEN Resolve(base, Tail(rel))
    ELSE IF rel[1] = pardir
    THEN (IF base = <<>> THEN <<pardir>> ELSE Resolve(SubSeq(base, 1, Len(base) - 1), Tail(rel)))
    ELSE Resolve(Append(base, rel[1]), Tail(rel))

\* the components of the directory that contains a page
DirOf(html) == LET c == strsplit(html) IN SubSeq(c, 1, Len(c) - 1)

\* C2: resolving what get_relative_html_path returns against the directory
\* of the old page's HTML path gives the new page: in flat mode its HTML
\* path, in directory mode the directory of its HTML path, the returned
\* string ending with a separator.
C2_RelativePathRoundTrip ==
    call.fn = "get_relative_html_path" =>
        LET old_html == get_html_path(Render(call.old), call.flag)
            new_html == get_html_path(Render(call.new), call.flag)
            got      == Resolve(DirOf(old_html), strsplit(call.ret))
        IN  IF call.flag
            THEN /\ got \o <<S_index_html>> = strsplit(new_html)
                 /\ endswith(call.ret, <<sep>>)
            ELSE got = strsplit(new_html)

C2_Witness ==
    /\ call.fn = "get_relative_html_path"
    /\ call.flag
    /\ call.old = [dir |-> <<<<"d">>, <<"e">>>>, file |-> [stem |-> <<"a">>, ext |-> S_md]]
    /\ call.new = [dir |-> <<>>, file |-> [stem |-> S_index, ext |-> S_md]]
    /\ call.ret = <<".", ".", sep, ".", ".", sep, ".", ".", sep>>

----------------------------------------------------------------------------
(* Properties of write_html                                                *)

\* the paths whose file differs between two file systems
Changed(a, b) ==
    {q \in DOMAIN a.files \cup DOMAIN b.files :
        \/ q \notin DOMAIN a.files
        \/ q \notin DOMAIN b.files
        \/ a.files[q] # b.files[q]}

\* C9: when write_html returns, every parent directory of site_dir/old_path
\* exists, the file there holds the template with all three places of the url
\* set to the destination, whatever was there before, and no other file or
\* directory of the site is created, changed or removed.
C9_WriteHtmlEffect ==
    (call.fn = "write_html" /\ ~call.raised) =>
        LET target == SiteDir \o <<sep>> \o call.old
        IN  /\ ancestors(dirname(target)) \subseteq fs.dirs
            /\ target \in DOMAIN fs.files
            /\ fs.files[target].kind = "redirect"
            /\ fs.files[target].canonical = call.new
            /\ fs.files[target].script = call.new
            /\ fs.files[target].refresh = call.new
            /\ Changed(call.pre, fs) \subseteq {target}
            /\ call.pre.dirs \subseteq fs.dirs
            /\ fs.dirs \ call.pre.dirs \subseteq ancestors(dirname(target))

C9_Witness ==
    /\ call.fn = "write_html"
    /\ ~call.raised
    /\ call.old = <<"d", sep, "e", sep>> \o S_new_html
    /\ (SiteDir \o <<sep>> \o call.old) \in DOMAIN call.pre.files
    /\ call.pre.files[SiteDir \o <<sep>> \o call.old] = Template(S_new_html)
    /\ call.new = S_external
    /\ (SiteDir \o <<sep>> \o S_old_html) \in DOMAIN fs.files

----------------------------------------------------------------------------
(* Properties of the plugin: collection (on_files), emission (on_post_build) *)

Collected == phase \in {"collected", "built", "done"}
Emitted == phase = "done"

\* the target starts with http:// or https://, in any letter case
IsHttpUrl(t) ==
    \E scheme \in {S_http, S_https} :
        /\ Len(scheme) <= Len(t)
        /\ EqualsIgnoreCase(SubSeq(t, 1, Len(scheme)), scheme)

\* the host's source paths, backslashes turned into forward slashes
HostPages == {[i \in 1..Len(f) |-> IF f[i] = "\\" THEN "/" ELSE f[i]] : f \in files}

\* where the redirect file of the i-th entry goes
OldHtmlAbs(i) ==
    config.site_dir \o <<sep>> \o get_html_path(redirects[i].old, config.use_directory_urls)

\* the file holds the redirect template, all of its urls set to dest
HoldsRedirect(fsys, path, dest) ==
    /\ path \in DOMAIN fsys.files
    /\ fsys.files[path].kind = "redirect"
    /\ fsys.files[path].canonical = dest
    /\ fsys.files[path].script = dest
    /\ fsys.files[path].refresh = dest

\* C3: during emission, an entry whose target is no http(s) URL and is a key
\* of the page set gets its redirect file written at
\* site_dir/get_html_path(old, flag), pointing to
\* get_relative_html_path(old, new, flag), and no other file changes in that
\* step; {old.md: new.md} with page new.md gives old.html -> new.html in flat
\* mode and old/index.html -> ../new/ in directory mode.
C3_KnownPageRedirectWritten ==
    Emitted =>
        /\ \A i \in 1..Len(redirects) :
              (~IsHttpUrl(redirects[i].new) /\ redirects[i].new \in DOMAIN doc_pages) =>
                  /\ \A cwd \in Cwds :
                        HoldsRedirect(trace[i + 1].fs, OldHtmlAbs(i),
                                      get_relative_html_path(redirects[i].old, redirects[i].new,
                                                             config.use_directory_urls, cwd))
                  /\ Changed(trace[i].fs, trace[i + 1].fs) \subseteq {OldHtmlAbs(i)}
                  /\ trace[i + 1].log = trace[i].log
        /\ (redirects = <<[old |-> S_old_md, new |-> S_new_md]>> /\ S_new_md \in DOMAIN doc_pages) =>
              IF config.use_directory_urls
              THEN HoldsRedirect(fs, SiteDir \o <<sep, "o", "l", "d", sep>> \o S_index_html,
                                 <<".", ".", sep, "n", "e", "w", sep>>)
              ELSE HoldsRedirect(fs, SiteDir \o <<sep>> \o S_old_html, S_new_html)

C3_Witness ==
    /\ Emitted
    /\ config.use_directory_urls
    /\ redirects = <<[old |-> S_old_md, new |-> S_new_md]>>
    /\ files = {S_new_md}
    /\ HoldsRedirect(fs, SiteDir \o <<sep, "o", "l", "d", sep>> \o S_index_html,
                     <<".", ".", sep, "n", "e", "w", sep>>)

\* C4: during emission, an entry whose target starts with http:// or https://
\* in any letter case gets its redirect file written at the mapped old path
\* with the target itself, unchanged, as the destination, whatever the page
\* set and the directory-URL flag are.
C4_ExternalTargetVerbatim ==
    Emitted =>
        \A i \in 1..Len(redirects) :
            IsHttpUrl(redirects[i].new) =>
                /\ HoldsRedirect(trace[i + 1].fs, OldHtmlAbs(i), redirects[i].new)
                /\ Changed(trace[i].fs, trace[i + 1].fs) \subseteq {OldHtmlAbs(i)}
                /\ trace[i + 1].log = trace[i].log

C4_Witness ==
    /\ Emitted
    /\ config.use_directory_urls
    /\ redirects = <<[old |-> S_d_README_md, new |-> S_external]>>
    /\ files = {}
    /\ HoldsRedirect(fs, SiteDir \o <<sep, "d", sep>> \o S_index_html, S_external)

\* C5: during emission, an entry whose target is neither an http(s) URL nor a
\* key of the page set records one warning naming the target and leaves the
\* site output, files and directories, exactly as it was.
C5_MissingTargetSkipped ==
    Emitted =>
        \A i \in 1..Len(redirects) :
            (~IsHttpUrl(redirects[i].new) /\ redirects[i].new \notin DOMAIN doc_pages) =>
                /\ trace[i + 1].fs = trace[i].fs
                /\ trace[i + 1].log = Append(trace[i].log, Warning("missing_target", redirects[i].new))

C5_Witness ==
    /\ Emitted
    /\ redirects = <<[old |-> S_old_md, new |-> S_d_x_md]>>
    /\ files = {S_new_md}
    /\ log = <<Warning("missing_target", S_d_x_md)>>
    /\ fs = trace[1].fs
    /\ DOMAIN fs.files = {SiteDir \o <<sep>> \o S_new_html}

\* how many times a warning is in the log
Count(w) == Cardinality({k \in 1..Len(log) : log[k] = w})

\* C6: collection records one warning for every key of the redirect table
\* that the markdown-file predicate rejects and none for a key it accepts; the
\* key stays in the table, and at emission its entry is processed like any
\* other: its file is written when the target is external or a known page.
C6_NonMarkdownKeyWarnedAndKept ==
    Collected =>
        /\ \A i \in 1..Len(config.redirect_maps) :
              Count(Warning("not_markdown", config.redirect_maps[i].old))
                  = IF is_markdown_file(config.redirect_maps[i].old) THEN 0 ELSE 1
        /\ redirects = config.redirect_maps
        /\ Emitted =>
              \A i \in 1..Len(redirects) :
                  (/\ ~is_markdown_file(redirects[i].old)
                   /\ (IsHttpUrl(redirects[i].new) \/ redirects[i].new \in HostPages)) =>
                      /\ OldHtmlAbs(i) \in DOMAIN trace[i + 1].fs.files
                      /\ trace[i + 1].fs.files[OldHtmlAbs(i)].kind = "redirect"

C6_Witness ==
    /\ Emitted
    /\ redirects = <<[old |-> S_old_txt, new |-> S_new_md]>>
    /\ ~config.use_directory_urls
    /\ log = <<Warning("not_markdown", S_old_txt)>>
    /\ HoldsRedirect(fs, SiteDir \o <<sep>> \o S_old_html, S_new_html)

\* the orders in which the entries of a table can be processed
Orders(t) == {[i \in 1..Len(t) |-> t[f[i]]] : f \in Permutations(1..Len(t))}

\* the files emission leaves when it processes the entries in the given order
FilesAfter(order, cwd) ==
    LET tr == on_post_build_loop(order, trace[1], DOMAIN doc_pages,
                                 config.use_directory_urls, config.site_dir, cwd)
    IN  tr[Len(tr)].fs.files

\* no two keys of the table are mapped to the same HTML path
DistinctHtmlPaths ==
    \A i, j \in 1..Len(redirects) :
        i # j => get_html_path(redirects[i].old, config.use_directory_urls)
                    # get_html_path(redirects[j].old, config.use_directory_urls)

\* C7 as stated: for every table of distinct keys, every order of processing
\* leaves the same files with the same contents.
C7_AnyOrderSameFiles ==
    Emitted => \A order \in Orders(redirects), cwd \in Cwds : FilesAfter(order, cwd) = fs.files

\* C7, amended: for every table whose keys are mapped to pairwise distinct
\* HTML paths, when emission completes, every order of processing leaves the
\* same files with the same contents.
C7_AnyOrderSameFilesDistinctPaths ==
    (Emitted /\ DistinctHtmlPaths) =>
        \A order \in Orders(redirects), cwd \in Cwds : FilesAfter(order, cwd) = fs.files

C7_Witness ==
    /\ Emitted
    /\ config.use_directory_urls
    /\ DistinctHtmlPaths
    /\ redirects = <<[old |-> S_old_md, new |-> S_new_md], [old |-> S_d_README_md, new |-> S_external]>>
    /\ HoldsRedirect(fs, SiteDir \o <<sep, "o", "l", "d", sep>> \o S_index_html,
                     <<".", ".", sep, "n", "e", "w", sep>>)
    /\ HoldsRedirect(fs, SiteDir \o <<sep, "d", sep>> \o S_index_html, S_external)

\* C8: whatever the configuration (legacy 'redirects' key or not, non-markdown
\* keys, missing targets), collection followed by emission ends without an
\* error, the anomalies are in the log as warnings, every entry of the table
\* was processed, and every entry whose target is external or a known page
\* has its redirect file in the site, wherever the bad entries are.
C8_BadMappingDoesNotAbort ==
    /\ phase # "failed"
    /\ \A k \in 1..Len(log) : log[k].kind \in {"legacy", "not_markdown", "missing_target"}
    /\ Collected => (config.redirects <=> Count(Warning("legacy", <<>>)) = 1)
    /\ Emitted =>
          /\ Len(trace) = Len(config.redirect_maps) + 1
          /\ \A i \in 1..Len(config.redirect_maps) :
                (IsHttpUrl(config.redirect_maps[i].new) \/ config.redirect_maps[i].new \in HostPages) =>
                    /\ OldHtmlAbs(i) \in DOMAIN fs.files
                    /\ fs.files[OldHtmlAbs(i)].kind = "redirect"

C8_Witness ==
    /\ Emitted
    /\ config.redirects
    /\ redirects = <<[old |-> S_old_txt, new |-> S_d_x_md], [old |-> S_d_README_md, new |-> S_new_md]>>
    /\ files = {S_new_md}
    /\ ~config.use_directory_urls
    /\ Len(log) = 3
    /\ HoldsRedirect(fs, SiteDir \o <<sep, "d", sep>> \o S_index_html,
                     <<".", ".", sep>> \o S_new_html)

\* C10: in every build, the redirect table and the page set that emission
\* uses are those of the collection just before it: collection replaces both
\* (the page set is exactly the host's current source paths, backslashes
\* turned into forward slashes), and emission changes neither; an entry is
\* written or warned about according to that page set alone.
C10_EmissionUsesLatestCollection ==
    Collected =>
        /\ redirects = config.redirect_maps
        /\ DOMAIN doc_pages = HostPages
        /\ \A k \in DOMAIN doc_pages : doc_pages[k] \in files
        /\ S_d_bs_x_md \in files => (S_d_x_md \in DOMAIN doc_pages /\ S_d_bs_x_md \notin DOMAIN doc_pages)
        /\ Emitted =>
              /\ Len(trace) = Len(config.redirect_maps) + 1
              /\ \A i \in 1..Len(config.redirect_maps) :
                    (trace[i + 1].log = trace[i].log)
                        <=> (IsHttpUrl(config.redirect_maps[i].new)
                                \/ config.redirect_maps[i].new \in HostPages)

C10_Witness ==
    /\ Emitted
    /\ builds = 2
    /\ files = {}
    /\ redirects = <<[old |-> S_old_md, new |-> S_new_md]>>
    /\ log = <<Warning("missing_target", S_new_md)>>

=============================================================================
